---- MODULE Spec2Model ----
(***************************************************************************)
(* TaskManager of src/main.py as a state machine.                          *)
(*                                                                         *)
(* Python values are modelled as follows.  A task is a dict: a function    *)
(* from key strings to values, living in `heap` under an object reference  *)
(* (a positive integer); the lists tasks / completedTasks, the pending     *)
(* coroutines and the return values hold references, as Python lists hold  *)
(* references to the same dict.  A datetime is a day number of January     *)
(* 2024; None is NoDate for a date and NoneStr for a string.               *)
(*                                                                         *)
(* asyncio: a coroutine runs without interruption up to its next real      *)
(* suspension, which in this program is only asyncio.sleep in validateTask.*)
(* Hence addTask is two steps (up to the sleep, after the sleep) and every *)
(* other method is one step.                                               *)
(***************************************************************************)
EXTENDS Integers, Sequences, FiniteSets, TLC

VARIABLES
    tasks,           \* self.tasks: sequence of references
    completedTasks,  \* self.completedTasks: sequence of references
    observers,       \* self.observers: sequence of callbacks
    idCounter,       \* self.idCounter
    heap,            \* reference -> dict, for every dict still referenced
    issued,          \* issued[r]: the 'id' written into dict r when it was built
    pending,         \* references of the addTask calls suspended in validateTask
    bulk,            \* the frame of the running bulkAddTasks call, or NoBulk
    now,             \* datetime.datetime.now()
    added,           \* history: the dicts whose addTask call returned them
    ret,             \* what the last operation returned or raised
    notified,        \* the observer invocations the last operation made
    soon             \* the call_soon callbacks of the last getTasksByPriority

vars == <<tasks, completedTasks, observers, idCounter, heap, issued, pending,
          bulk, now, added, ret, notified, soon>>

(* ------------------------------ bounds -------------------------------- *)
MaxId == 3          \* addTask is not started once idCounter has reached it
MaxObservers == 2   \* registered observers
MaxNow == 16        \* the clock stops here
MaxBulk == 3        \* items of one bulkAddTasks call

(* ------------------------------ values -------------------------------- *)
NoneStr == "<None>"
NoDate == 0
NowInit == 15

Range(s) == {s[i] : i \in 1..Len(s)}

\* Python truthiness of a str-or-None value.
Falsy(s) == s \in {"", NoneStr}

\* datetime.datetime.fromisoformat on the strings the callers pass: the ISO
\* dates parse to their day, every other string raises ValueError.  The
\* dates carry no UTC offset, as datetime.now() carries none.
IsoDay == ("2024-01-10" :> 10) @@ ("2024-01-15" :> 15) @@ ("2024-01-20" :> 20)
fromisoformat_raises(s) == s \notin DOMAIN IsoDay
fromisoformat(s) == IsoDay[s]

\* d.get(key) with None as the default.
Get(d, key) == IF key \in DOMAIN d THEN d[key] ELSE NoneStr

\* The value of a parameter of addTask in a call with the arguments a: the
\* argument when the call passes one, else the default of line 11.
Arg(a, key, default) == IF key \in DOMAIN a THEN a[key] ELSE default

\* The declared fields of a Task.
TaskFields == {"id", "title", "priority", "dueDate", "completed", "createdAt",
               "completedAt"}

(* ------------------------------ inputs -------------------------------- *)
\* Callbacks a caller registers; Throws(cb): the callback raises an Exception
\* whenever it is invoked.
Callbacks == {"ui", "faulty"}
Throws(cb) == cb = "faulty"

\* Arguments of the direct addTask calls: the three calls of demonstrateUsage
\* (lines 125-127).
AddArgs ==
    { [title |-> "Complete project", priority |-> "high", dueDate |-> "2024-01-15"],
      [title |-> "", priority |-> "low", dueDate |-> "2024-01-20"],
      [title |-> "Review code", priority |-> "medium", dueDate |-> "invalid-date"] }

\* Items of a bulkAddTasks call: dicts that may omit keys.
BulkItems ==
    { [title |-> "A"],
      [title |-> ""],
      [title |-> "B", dueDate |-> "invalid-date"] }

\* updateTask patches: dicts over declared fields, and the patch of
\* demonstrateUsage whose keys are no Task field.
Patches ==
    { [id |-> 1],
      [completed |-> TRUE],
      ("__proto__" :> "isAdmin") @@ ("constructor" :> "isAdmin") }

(* --------------------------- the heap of dicts ------------------------ *)
\* Drop the dicts nothing refers to any more.
Collect(hp, live) == [r \in (DOMAIN hp) \cap live |-> hp[r]]

\* for key in updates: task[key] = updates[key]
Merge(task, updates) ==
    [k \in (DOMAIN task) \cup (DOMAIN updates) |->
        IF k \in DOMAIN updates THEN updates[k] ELSE task[k]]

\* next((i for i, t in enumerate(self.tasks) if t['id'] == taskId), -1),
\* 1-based, 0 for "not found".
RECURSIVE FindFrom(_, _, _, _)
FindFrom(tk, hp, taskId, i) ==
    IF i > Len(tk) THEN 0
    ELSE IF hp[tk[i]].id = taskId THEN i
    ELSE FindFrom(tk, hp, taskId, i + 1)

\* A search that takes the first task whatever its id.
FindIndex_first(tk, hp, taskId) == IF Len(tk) > 0 THEN 1 ELSE 0

FindIndex(tk, hp, taskId) == FindFrom(tk, hp, taskId, 1)

Pop_keep(s, i) == s

\* list.pop(i)
Pop(s, i) == [j \in 1..(Len(s) - 1) |-> IF j < i THEN s[j] ELSE s[j + 1]]

(* --------------------------- notifyObservers -------------------------- *)
\* The loop without its try/except: the first callback that raises ends it.
notifyObservers_unguarded(obs, event, data) ==
    LET bad == {i \in 1..Len(obs) : Throws(obs[i])}
        last == IF bad = {} THEN Len(obs)
                ELSE CHOOSE i \in bad : \A j \in bad : i <= j
    IN  [ calls  |-> [i \in 1..last |->
                        [observer |-> obs[i], event |-> event, data |-> data]],
          raised |-> bad # {} ]

\* Lines 66-71: every observer is called in list order; an Exception of a
\* callback is caught and printed, so the loop goes on and nothing is raised.
notifyObservers(obs, event, data) ==
    [ calls  |-> [i \in 1..Len(obs) |->
                    [observer |-> obs[i], event |-> event, data |-> data]],
      raised |-> FALSE ]

(* ------------------------------- addTask ------------------------------ *)
validateTask_lenient(task) == [raised |-> FALSE, value |-> TRUE]

\* Lines 28-32.  The second disjunct of line 30 is modelled as written:
\* len == 0 and ((len == 0) == 0).
validateTask(task) ==
    LET empty == (task.title = "")
    IN  IF Falsy(task.title) \/ (empty /\ ((IF empty THEN 1 ELSE 0) = 0))
        THEN [raised |-> TRUE, value |-> FALSE]
        ELSE [raised |-> FALSE, value |-> TRUE]

\* Line 20: self.idCounter += 1
Incremented_none(c) == c

Incremented(c) == c + 1

\* Lines 12-21 up to the sleep, on the manager fields m = [idCounter, heap,
\* issued] at clock t.  fromisoformat may raise before anything is written.
addTask_begin(m, t, title, priority, dueDate) ==
    IF ~Falsy(dueDate) /\ fromisoformat_raises(dueDate)
    THEN [m |-> m, raised |-> TRUE, ref |-> 0]
    ELSE LET r == Len(m.issued) + 1
             task == [ id        |-> m.idCounter + 1,
                       title     |-> title,
                       priority  |-> priority,
                       dueDate   |-> IF Falsy(dueDate) THEN NoDate
                                     ELSE fromisoformat(dueDate),
                       completed |-> FALSE,
                       createdAt |-> t ]
         IN  [ m |-> [ idCounter |-> Incremented(m.idCounter),
                       heap      |-> (r :> task) @@ m.heap,
                       issued    |-> Append(m.issued, task.id) ],
               raised |-> FALSE,
               ref |-> r ]

\* Lines 21-26 after the sleep, for the dict r on the lists tk / observers obs.
addTask_end(tk, obs, hp, r) ==
    LET v == validateTask(hp[r])
    IN  IF v.raised
        THEN [tasks |-> tk, calls |-> <<>>, raised |-> TRUE, msg |-> "False"]
        ELSE IF v.value
        THEN LET n == notifyObservers(obs, "taskAdded", r)
             IN  [tasks |-> Append(tk, r), calls |-> n.calls,
                  raised |-> n.raised, msg |-> "Observer"]
        ELSE [tasks |-> tk, calls |-> <<>>, raised |-> TRUE, msg |-> "Invalid task"]

(* ----------------------------- bulkAddTasks --------------------------- *)
Caught_dropped(results, msg) == results

\* Lines 87-88: results.append({'error': str(e)})
Caught(results, msg) == Append(results, [error |-> msg])

NoBulk == [items |-> <<>>, k |-> 0, ref |-> 0, results |-> <<>>]

\* Lines 83-88 from item k on: `await p` runs the coroutine of item k from its
\* first line.  When fromisoformat raises, the except clause records the
\* message and the loop goes on to item k + 1 in the same step; when the
\* coroutine reaches the sleep, bulkAddTasks is suspended with it (ref # 0);
\* past the last item the loop is over (k > Len(items)).
RECURSIVE bulkAddTasks_run(_, _, _, _, _)
bulkAddTasks_run(m, t, items, k, results) ==
    IF k > Len(items)
    THEN [m |-> m, k |-> k, ref |-> 0, results |-> results]
    ELSE LET d == items[k]
             b == addTask_begin(m, t, Get(d, "title"), Get(d, "priority"),
                                Get(d, "dueDate"))
         IN  IF b.raised
             THEN bulkAddTasks_run(b.m, t, items, k + 1,
                      Caught(results, "Invalid isoformat string"))
             ELSE [m |-> b.m, k |-> k, ref |-> b.ref, results |-> results]

(* ------------------------------- state -------------------------------- *)
\* No getTasksByPriority call was made yet: no callback is queued on the event
\* loop and there is no results list.
NoSoon == [n |-> 0, i |-> 0, priority |-> NoneStr, results |-> <<>>]

Manager == [idCounter |-> idCounter, heap |-> heap, issued |-> issued]

\* The references something still holds: the two lists and the suspended
\* coroutines.
Held(tk, done, pend, bk) ==
    Range(tk) \cup Range(done) \cup pend \cup {bk.ref}

Init ==
    /\ tasks = <<>>
    /\ completedTasks = <<>>
    /\ observers = <<>>
    /\ idCounter = 0
    /\ heap = <<>>
    /\ issued = <<>>
    /\ pending = {}
    /\ bulk = NoBulk
    /\ now = NowInit
    /\ added = {}
    /\ ret = [op |-> "init", arg |-> 0, raised |-> FALSE, value |-> 0]
    /\ notified = <<>>
    /\ soon = NoSoon

(* ------------------------------ actions ------------------------------- *)
\* addTask called and run up to `await asyncio.sleep` (lines 11-21, 28-29).
AddTaskCall(a) ==
    /\ idCounter < MaxId
    /\ LET b == addTask_begin(Manager, now, a.title, Arg(a, "priority", "medium"),
                               Arg(a, "dueDate", NoneStr))
       IN  /\ idCounter' = b.m.idCounter
           /\ issued' = b.m.issued
           /\ IF b.raised
              THEN /\ ret' = [op |-> "addTask", arg |-> a, raised |-> TRUE, value |-> 0]
                   /\ pending' = pending
              ELSE /\ ret' = [op |-> "addTask.await", arg |-> a, raised |-> FALSE, value |-> 0]
                   /\ pending' = pending \cup {b.ref}
           /\ heap' = b.m.heap
    /\ notified' = <<>>
    /\ UNCHANGED <<tasks, completedTasks, observers, bulk, now, added, soon>>

\* Suspended calls that resume in the order they were started only.
AddTaskResume_inorder(r) ==
    /\ \A q \in pending : r <= q
    /\ r \in pending
    /\ pending' = pending \ {r}
    /\ LET e == addTask_end(tasks, observers, heap, r)
       IN  /\ tasks' = e.tasks
           /\ notified' = e.calls
           /\ ret' = [op |-> "addTask", arg |-> r, raised |-> e.raised,
                      value |-> IF e.raised THEN 0 ELSE r]
           /\ added' = IF e.raised THEN added ELSE added \cup {r}
    /\ heap' = Collect(heap, Held(tasks', completedTasks, pending', bulk))
    /\ UNCHANGED <<completedTasks, observers, idCounter, issued, bulk, now, soon>>

\* The sleep of a suspended addTask call is over (lines 29-32, 21-26).
AddTaskResume(r) ==
    /\ r \in pending
    /\ pending' = pending \ {r}
    /\ LET e == addTask_end(tasks, observers, heap, r)
       IN  /\ tasks' = e.tasks
           /\ notified' = e.calls
           /\ ret' = [op |-> "addTask", arg |-> r, raised |-> e.raised,
                      value |-> IF e.raised THEN 0 ELSE r]
           /\ added' = IF e.raised THEN added ELSE added \cup {r}
    /\ heap' = Collect(heap, Held(tasks', completedTasks, pending', bulk))
    /\ UNCHANGED <<completedTasks, observers, idCounter, issued, bulk, now, soon>>

\* completeTask (lines 34-44).
completeTask(taskId) ==
    LET taskIndex == FindIndex(tasks, heap, taskId)
    IN  IF taskIndex # 0
        THEN LET r == tasks[taskIndex]
                 task == Merge(heap[r], [completed |-> TRUE, completedAt |-> now])
                 n == notifyObservers(observers, "taskCompleted", r)
             IN  /\ completedTasks' = Append(completedTasks, r)
                 /\ tasks' = Pop(tasks, taskIndex)
                 /\ notified' = n.calls
                 /\ ret' = [op |-> "completeTask", arg |-> taskId, raised |-> n.raised,
                            value |-> IF n.raised THEN 0 ELSE r]
                 /\ heap' = [heap EXCEPT ![r] = task]
                 /\ UNCHANGED <<observers, idCounter, issued, pending, bulk, now, added, soon>>
        ELSE /\ ret' = [op |-> "completeTask", arg |-> taskId, raised |-> FALSE, value |-> 0]
             /\ notified' = <<>>
             /\ UNCHANGED <<tasks, completedTasks, observers, idCounter, heap, issued,
                            pending, bulk, now, added, soon>>

\* updateTask (lines 52-57).
updateTask(taskId, updates) ==
    LET i == FindIndex(tasks, heap, taskId)
    IN  IF i # 0
        THEN LET r == tasks[i]
                 n == notifyObservers(observers, "taskUpdated", r)
             IN  /\ notified' = n.calls
                 /\ ret' = [op |-> "updateTask", arg |-> [taskId |-> taskId, updates |-> updates],
                            raised |-> n.raised, value |-> 0]
                 /\ heap' = [heap EXCEPT ![r] = Merge(heap[r], updates)]
                 /\ UNCHANGED <<tasks, completedTasks, observers, idCounter, issued,
                                pending, bulk, now, added, soon>>
        ELSE /\ ret' = [op |-> "updateTask", arg |-> [taskId |-> taskId, updates |-> updates],
                        raised |-> FALSE, value |-> 0]
             /\ notified' = <<>>
             /\ UNCHANGED <<tasks, completedTasks, observers, idCounter, heap, issued,
                            pending, bulk, now, added, soon>>

\* addObserver (lines 59-60).
addObserver(callback) ==
    /\ Len(observers) < MaxObservers
    /\ observers' = Append(observers, callback)
    /\ ret' = [op |-> "addObserver", arg |-> callback, raised |-> FALSE, value |-> 0]
    /\ notified' = <<>>
    /\ UNCHANGED <<tasks, completedTasks, idCounter, heap, issued, pending, bulk,
                   now, added, soon>>

\* removeObserver (lines 62-64): list.remove drops the first occurrence.
removeObserver(callback) ==
    /\ IF callback \in Range(observers)
       THEN LET i == CHOOSE j \in 1..Len(observers) :
                         /\ observers[j] = callback
                         /\ \A h \in 1..(j - 1) : observers[h] # callback
            IN  observers' = Pop(observers, i)
       ELSE observers' = observers
    /\ ret' = [op |-> "removeObserver", arg |-> callback, raised |-> FALSE, value |-> 0]
    /\ notified' = <<>>
    /\ UNCHANGED <<tasks, completedTasks, idCounter, heap, issued, pending, bulk,
                   now, added, soon>>

\* The wall clock advances.  Only SpecOverdue lets the clock move: no
\* property of the other specifications reads a timestamp.
Tick ==
    /\ now < MaxNow
    /\ now' = now + 1
    /\ UNCHANGED <<tasks, completedTasks, observers, idCounter, heap, issued,
                   pending, bulk, added, ret, notified, soon>>

\* bulkAddTasks called (lines 80-85): the coroutines are built, which runs
\* none of their code, and the loop awaits them one after the other.
BulkCall(items) ==
    /\ bulk = NoBulk
    /\ idCounter + Len(items) <= MaxId
    /\ LET run == bulkAddTasks_run(Manager, now, items, 1, <<>>)
       IN  /\ idCounter' = run.m.idCounter
           /\ issued' = run.m.issued
           /\ heap' = run.m.heap
           /\ IF run.ref # 0
              THEN /\ bulk' = [items |-> items, k |-> run.k, ref |-> run.ref,
                               results |-> run.results]
                   /\ ret' = [op |-> "bulkAddTasks.await", arg |-> items,
                              raised |-> FALSE, value |-> 0]
              ELSE /\ bulk' = NoBulk
                   /\ ret' = [op |-> "bulkAddTasks", arg |-> items,
                              raised |-> FALSE, value |-> run.results]
    /\ notified' = <<>>
    /\ UNCHANGED <<tasks, completedTasks, observers, pending, now, added, soon>>

\* The sleep of the item bulkAddTasks awaits is over (lines 85-89).
BulkResume ==
    /\ bulk.ref # 0
    /\ LET e == addTask_end(tasks, observers, heap, bulk.ref)
           results == IF e.raised THEN Caught(bulk.results, e.msg)
                      ELSE Append(bulk.results, [ref |-> bulk.ref])
           run == bulkAddTasks_run(Manager, now, bulk.items, bulk.k + 1, results)
       IN  /\ tasks' = e.tasks
           /\ notified' = e.calls
           /\ added' = IF e.raised THEN added ELSE added \cup {bulk.ref}
           /\ idCounter' = run.m.idCounter
           /\ issued' = run.m.issued
           /\ IF run.ref # 0
              THEN /\ bulk' = [items |-> bulk.items, k |-> run.k, ref |-> run.ref,
                               results |-> run.results]
                   /\ ret' = [op |-> "bulkAddTasks.await", arg |-> bulk.items,
                              raised |-> FALSE, value |-> 0]
              ELSE /\ bulk' = NoBulk
                   /\ ret' = [op |-> "bulkAddTasks", arg |-> bulk.items,
                              raised |-> FALSE, value |-> run.results]
           /\ heap' = Collect(run.m.heap, Held(tasks', completedTasks, pending, bulk'))
    /\ UNCHANGED <<completedTasks, observers, pending, now, soon>>

RECURSIVE SeqsUpTo(_, _)
SeqsUpTo(S, n) ==
    IF n = 0 THEN {<<>>}
    ELSE LET shorter == SeqsUpTo(S, n - 1)
         IN  shorter \cup {Append(q, x) : q \in shorter, x \in S}

\* addTask, completeTask and updateTask with every call of demonstrateUsage
\* and every patch.  The observers change no field of the manager or of a
\* task and are left out here; bulkAddTasks is in the specifications below.
Next ==
    \/ \E a \in AddArgs : AddTaskCall(a)
    \/ \E r \in pending : AddTaskResume(r)
    \/ \E taskId \in 1..MaxId : completeTask(taskId)
    \/ \E taskId \in 1..MaxId, updates \in Patches : updateTask(taskId, updates)

Spec == Init /\ [][Next]_vars

\* bulkAddTasks with every item, beside direct addTask calls and completeTask.
NextBulk ==
    \/ \E items \in SeqsUpTo(BulkItems, MaxBulk) : BulkCall(items)
    \/ BulkResume
    \/ AddTaskCall([title |-> "A", priority |-> NoneStr, dueDate |-> NoneStr])
    \/ \E r \in pending : AddTaskResume(r)
    \/ \E taskId \in 1..MaxId : completeTask(taskId)

SpecBulk == Init /\ [][NextBulk]_vars

\* The four operations that move tasks between the collections or change
\* them, on one kind of item.
NextLifecycle ==
    \/ \E title \in {"A", ""} :
          AddTaskCall([title |-> title, priority |-> NoneStr, dueDate |-> NoneStr])
    \/ \E r \in pending : AddTaskResume(r)
    \/ \E items \in SeqsUpTo({[title |-> "A"]}, MaxBulk) : BulkCall(items)
    \/ BulkResume
    \/ \E taskId \in 1..MaxId : completeTask(taskId)
    \/ \E taskId \in 1..MaxId : updateTask(taskId, [id |-> 1])

SpecLifecycle == Init /\ [][NextLifecycle]_vars

\* The observer registry beside the three notifying operations.
NextObservers ==
    \/ \E callback \in Callbacks : addObserver(callback)
    \/ \E callback \in Callbacks : removeObserver(callback)
    \/ \E a \in {x \in AddArgs : x.priority # "medium"} : AddTaskCall(a)
    \/ \E r \in pending : AddTaskResume(r)
    \/ \E taskId \in 1..MaxId : completeTask(taskId)
    \/ \E taskId \in 1..MaxId : updateTask(taskId, [priority |-> "high"])

SpecObservers == Init /\ [][NextObservers]_vars

(* ------------------------------- queries ------------------------------ *)
\* getTasksByPriority (lines 46-50).  The loop hands one callback per open
\* task to loop.call_soon and the method returns `results` before the event
\* loop has run any of them: the list it returns is empty.  The callbacks
\* read `i` when they run, after the loop has left it at the last index.
\* A call is made when the callbacks of the call before it have run.
getTasksByPriority(priority) ==
    /\ soon.n = 0
    /\ soon' = [n |-> Len(tasks), i |-> Len(tasks), priority |-> priority,
                results |-> <<>>]
    /\ ret' = [op |-> "getTasksByPriority", arg |-> priority, raised |-> FALSE,
               value |-> soon'.results]
    /\ notified' = <<>>
    /\ UNCHANGED <<tasks, completedTasks, observers, idCounter, heap, issued,
                   pending, bulk, now, added>>

\* n times the same element.
Repeat(x, n) == [k \in 1..n |-> x]

\* The event loop runs the queued callbacks, one after the other in one
\* iteration: each evaluates self.tasks[i] for the last index of the call,
\* which raises IndexError inside the callback when tasks has become
\* shorter, and appends that task to `results` when its priority matches.
RunSoon ==
    /\ soon.n > 0
    /\ soon' = [soon EXCEPT
                  !.n = 0,
                  !.results =
                      IF soon.i <= Len(tasks)
                         /\ heap[tasks[soon.i]].priority = soon.priority
                      THEN soon.results \o Repeat(tasks[soon.i], soon.n)
                      ELSE soon.results]
    /\ UNCHANGED <<tasks, completedTasks, observers, idCounter, heap, issued,
                   pending, bulk, now, added, ret, notified>>

\* The filter of getOverdueTasks with <= in place of <.
Overdue_inclusive(tk, hp, t) ==
    SelectSeq(tk, LAMBDA r : /\ hp[r].dueDate # NoDate
                             /\ hp[r].dueDate <= t
                             /\ ~hp[r].completed)

\* Lines 75-76: [t for t in self.tasks if t['dueDate'] and t['dueDate'] < now
\* and not t['completed']]
Overdue(tk, hp, t) ==
    SelectSeq(tk, LAMBDA r : /\ hp[r].dueDate # NoDate
                             /\ hp[r].dueDate < t
                             /\ ~hp[r].completed)

\* sorted(..., key=lambda x: x['dueDate']) (line 77): a stable sort, as an
\* insertion of each element behind the elements whose key is not greater.
RECURSIVE SortedByDueDate(_, _)
SortedByDueDate(s, hp) ==
    IF s = <<>> THEN <<>>
    ELSE LET x == s[Len(s)]
             front == SortedByDueDate(SubSeq(s, 1, Len(s) - 1), hp)
             le == SelectSeq(front, LAMBDA r : hp[r].dueDate <= hp[x].dueDate)
             gt == SelectSeq(front, LAMBDA r : hp[r].dueDate > hp[x].dueDate)
         IN  le \o <<x>> \o gt

\* getOverdueTasks (lines 73-78); ret.arg is the clock reading of line 74.
getOverdueTasks ==
    /\ ret' = [op |-> "getOverdueTasks", arg |-> now, raised |-> FALSE,
               value |-> SortedByDueDate(Overdue(tasks, heap, now), heap)]
    /\ notified' = <<>>
    /\ UNCHANGED <<tasks, completedTasks, observers, idCounter, heap, issued,
                   pending, bulk, now, added, soon>>

\* calculateCompletionRate (lines 96-97): len(completedTasks) / total * 100,
\* a fraction [num, den]; the division raises ZeroDivisionError when total
\* is 0.
calculateCompletionRate(done, total) ==
    IF total = 0
    THEN [raised |-> TRUE, value |-> [num |-> 0, den |-> 1]]
    ELSE [raised |-> FALSE, value |-> [num |-> done * 100, den |-> total]]

\* getTaskStats (lines 91-101).
getTaskStats ==
    /\ LET total == Len(tasks) + Len(completedTasks)
           rate == calculateCompletionRate(Len(completedTasks), total)
       IN  ret' = [op |-> "getTaskStats", arg |-> 0, raised |-> rate.raised,
                   value |-> IF rate.raised THEN 0
                             ELSE [ total |-> total,
                                    completed |-> Len(completedTasks),
                                    pending |-> Len(tasks),
                                    overdue |-> Len(Overdue(tasks, heap, now)),
                                    completionRate |-> rate.value ]]
    /\ notified' = <<>>
    /\ UNCHANGED <<tasks, completedTasks, observers, idCounter, heap, issued,
                   pending, bulk, now, added, soon>>

\* The queries beside the calls of demonstrateUsage and completeTask.
NextQueries ==
    \/ \E a \in AddArgs : AddTaskCall(a)
    \/ \E r \in pending : AddTaskResume(r)
    \/ \E taskId \in 1..MaxId : completeTask(taskId)
    \/ \E priority \in {"high", "low"} : getTasksByPriority(priority)
    \/ RunSoon
    \/ getOverdueTasks
    \/ getTaskStats

SpecQueries == Init /\ [][NextQueries]_vars

\* addTask calls with an early due date, with the due date of the first call
\* of demonstrateUsage, and without one.
DatedArgs ==
    { [title |-> "A", dueDate |-> "2024-01-10"],
      [title |-> "A", dueDate |-> "2024-01-15"],
      [title |-> "A"] }

\* getOverdueTasks while the clock advances, beside the operations that
\* change what it reads: tasks, a due date, the completed flag.  Every task
\* carries two timestamps, so this specification stops one task short of
\* MaxId.
NextOverdue ==
    \/ \E a \in DatedArgs : idCounter < MaxId - 1 /\ AddTaskCall(a)
    \/ \E r \in pending : AddTaskResume(r)
    \/ \E taskId \in 1..MaxId : completeTask(taskId)
    \/ \E taskId \in 1..MaxId : updateTask(taskId, [completed |-> TRUE])
    \/ Tick
    \/ getOverdueTasks

SpecOverdue == Init /\ [][NextOverdue]_vars

\* updateTask with a patch of the id and a patch of the title, on ids that
\* are open, pending, completed or unused, with observers registered.
NextUpdate ==
    \/ addObserver("ui")
    \/ AddTaskCall([title |-> "A"])
    \/ \E r \in pending : AddTaskResume(r)
    \/ \E taskId \in 1..MaxId : completeTask(taskId)
    \/ \E taskId \in 1..MaxId, updates \in {[id |-> 1], [title |-> "B"]} :
          updateTask(taskId, updates)

SpecUpdate == Init /\ [][NextUpdate]_vars

\* addTask calls and bulkAddTasks items that leave out the priority or the
\* due date, or pass a due date that is no ISO date.
InputArgs ==
    { [title |-> "A"],
      [title |-> "A", priority |-> "low", dueDate |-> ""],
      [title |-> "A", priority |-> "low", dueDate |-> "invalid-date"] }

NextInputs ==
    \/ \E a \in InputArgs : AddTaskCall(a)
    \/ \E r \in pending : AddTaskResume(r)
    \/ \E items \in SeqsUpTo(InputArgs, MaxBulk) : BulkCall(items)
    \/ BulkResume

SpecInputs == Init /\ [][NextInputs]_vars

\* The manager with the observer of TaskUI registered at construction
\* (lines 138-139, 108-110) and no task yet.
InitObserved ==
    /\ tasks = <<>>
    /\ completedTasks = <<>>
    /\ observers = <<"ui">>
    /\ idCounter = 0
    /\ heap = <<>>
    /\ issued = <<>>
    /\ pending = {}
    /\ bulk = NoBulk
    /\ now = NowInit
    /\ added = {}
    /\ ret = [op |-> "init", arg |-> 0, raised |-> FALSE, value |-> 0]
    /\ notified = <<>>
    /\ soon = NoSoon

\* The operations that notify, seen by an observer that stays registered.
NextEvents ==
    \/ \E title \in {"A", ""} : AddTaskCall([title |-> title])
    \/ \E r \in pending : AddTaskResume(r)
    \/ \E taskId \in 1..MaxId : completeTask(taskId)
    \/ \E taskId \in 1..MaxId, updates \in {[id |-> 1], [title |-> "B"]} :
          updateTask(taskId, updates)

SpecEvents == InitObserved /\ [][NextEvents]_vars

\* The addTask call whose sleep is allowed never to end.
HungCalls == {1}

\* addTask calls beside completeTask and updateTask.
NextFair ==
    \/ \E title \in {"A", ""} : AddTaskCall([title |-> title])
    \/ \E r \in pending : AddTaskResume(r)
    \/ \E taskId \in 1..MaxId : completeTask(taskId)
    \/ \E taskId \in 1..MaxId : updateTask(taskId, [title |-> "B"])

\* The event loop ends the sleep of line 29 of every suspended call, with the
\* possible exception of the calls of HungCalls.
SpecFair ==
    /\ Init
    /\ [][NextFair]_vars
    /\ \A r \in (1..MaxId) \ HungCalls : WF_pending(AddTaskResume(r))

(* ======================== properties of the claims ==================== *)
Count(s, x) == Cardinality({i \in 1..Len(s) : s[i] = x})
Stored == Range(tasks) \cup Range(completedTasks)
OpenIds == {heap[r].id : r \in Range(tasks)}
CompletedIds == {heap[r].id : r \in Range(completedTasks)}
Increasing(s) == \A i, j \in 1..Len(s) : i < j => s[i] < s[j]

\* C1: every task whose addTask call returned it is, after every step, held
\* exactly once by tasks and completedTasks together (in one of them, not in
\* both, never dropped), and a task that is in completedTasks is still there
\* after the step and not in tasks.
C1_ExactlyOneCollection ==
    [][ /\ added \subseteq added'
        /\ \A r \in added' : Count(tasks', r) + Count(completedTasks', r) = 1
        /\ \A r \in Range(completedTasks) :
              r \in Range(completedTasks') /\ r \notin Range(tasks') ]_vars

\* A completed task and an open task that carry the same 'id' (after an id
\* patch) beside a task added by bulkAddTasks: the two lists still hold
\* each dict once.
C1_Witness ==
    /\ Len(completedTasks) >= 1
    /\ Len(tasks) >= 1
    /\ heap[tasks[1]].id = heap[completedTasks[1]].id
    /\ added = Stored
    /\ Cardinality(added) = 3
    /\ ret.op = "bulkAddTasks"

\* C2: idCounter never goes down, the ids written into the dicts are strictly
\* increasing in the order the addTask calls were started (so pairwise
\* distinct), and a call that returns its task returns it with the id that
\* was issued to it, whatever calls were pending or failed meanwhile.
C2_IdsStrictlyIncreasing ==
    [][ /\ idCounter' >= idCounter
        /\ Increasing(issued')
        /\ \A i \in 1..Len(issued) : issued'[i] = issued[i]
        /\ \A r \in added' \ added : heap'[r].id = issued'[r] ]_vars

\* Three calls were pending together, the second failed validation, and the
\* third returned before the first.
C2_Witness ==
    /\ issued = <<1, 2, 3>>
    /\ tasks = <<3, 1>>
    /\ added = {1, 3}
    /\ pending = {}
    /\ ret.op = "addTask" /\ ret.value = 1

C3_CompleteIdempotent ==
    [][ ret'.op = "completeTask" =>
          IF ret'.arg \in OpenIds /\ ret'.arg \notin CompletedIds
          THEN /\ ret'.value # 0
               /\ heap'[ret'.value].completed
               /\ "completedAt" \in DOMAIN heap'[ret'.value]
               /\ ret'.value \in Range(completedTasks')
               /\ ret'.value \notin Range(tasks')
          ELSE /\ ret'.value = 0
               /\ tasks' = tasks
               /\ completedTasks' = completedTasks
               /\ heap' = heap
               /\ notified' = <<>> ]_vars

\* C5: a stored task has completed = True exactly when it is in completedTasks.
C5_CompletedIffInCompleted ==
    \A r \in Stored : heap[r].completed <=> r \in Range(completedTasks)

\* C6: no two stored tasks have the same id, and a stored task has the id
\* that was written into it at creation.
C6_IdsUniqueAndStable ==
    /\ \A r, q \in Stored : r # q => heap[r].id # heap[q].id
    /\ \A r \in Stored : heap[r].id = issued[r]

\* C7: an updateTask call whose patch has a key that is no declared Task
\* field leaves the key set of every open task as it was.
C7_NoUndeclaredKeys ==
    [][ ( /\ ret'.op = "updateTask"
          /\ ~((DOMAIN ret'.arg.updates) \subseteq TaskFields) )
        => \A r \in Range(tasks) : DOMAIN heap'[r] = DOMAIN heap[r] ]_vars

\* The invocations notifyObservers owes the registered observers.
Delivered(obs, event, data) ==
    [i \in 1..Len(obs) |-> [observer |-> obs[i], event |-> event, data |-> data]]

\* C8: the step in which a task is appended, completed or updated invokes
\* every registered observer once, in registration order, with that event
\* and that task, also past an observer that raises; the operation does not
\* raise, and returns and changes what it does with no observer registered.
C8_AllObserversNotified ==
    [][ /\ Len(tasks') > Len(tasks) =>
              LET r == tasks'[Len(tasks')]
              IN  /\ notified' = Delivered(observers, "taskAdded", r)
                  /\ tasks' = Append(tasks, r)
                  /\ ret' = [op |-> "addTask", arg |-> r, raised |-> FALSE, value |-> r]
        /\ Len(completedTasks') > Len(completedTasks) =>
              LET r == completedTasks'[Len(completedTasks')]
              IN  /\ notified' = Delivered(observers, "taskCompleted", r)
                  /\ r \notin Range(tasks')
                  /\ heap'[r].completed
                  /\ ret'.op = "completeTask" /\ ~ret'.raised /\ ret'.value = r
        /\ ( /\ ret'.op = "updateTask"
             /\ FindIndex(tasks, heap, ret'.arg.taskId) # 0 ) =>
              LET r == tasks[FindIndex(tasks, heap, ret'.arg.taskId)]
              IN  /\ notified' = Delivered(observers, "taskUpdated", r)
                  /\ heap'[r] = Merge(heap[r], ret'.arg.updates)
                  /\ ~ret'.raised ]_vars

\* addTask has just returned its task with a raising observer registered
\* before a sound one: both were invoked, in that order.
C8_Witness ==
    /\ observers = <<"faulty", "ui">>
    /\ ret.op = "addTask" /\ ~ret.raised /\ ret.value # 0
    /\ notified = << [observer |-> "faulty", event |-> "taskAdded", data |-> ret.value],
                     [observer |-> "ui", event |-> "taskAdded", data |-> ret.value] >>

\* An item bulkAddTasks can add: a non-empty title, and a due date that is
\* absent or an ISO date.
ItemValid(d) ==
    /\ ~Falsy(Get(d, "title"))
    /\ Falsy(Get(d, "dueDate")) \/ Get(d, "dueDate") \in DOMAIN IsoDay

\* C9: bulkAddTasks returns one result per item, at the item's position: for
\* a valid item the task built from it, which was added (it is in tasks or
\* completedTasks), for any other item an error descriptor; the tasks appear
\* in the order of their items.
C9_BulkResultsInOrder ==
    ret.op = "bulkAddTasks" =>
        /\ Len(ret.value) = Len(ret.arg)
        /\ \A k \in 1..Len(ret.arg) :
              IF ItemValid(ret.arg[k])
              THEN /\ DOMAIN ret.value[k] = {"ref"}
                   /\ ret.value[k].ref \in added \cap Stored
                   /\ heap[ret.value[k].ref].title = ret.arg[k].title
              ELSE DOMAIN ret.value[k] = {"error"}
        /\ \A j, k \in 1..Len(ret.value) :
              ( /\ j < k
                /\ DOMAIN ret.value[j] = {"ref"}
                /\ DOMAIN ret.value[k] = {"ref"} )
              => ret.value[j].ref < ret.value[k].ref

\* bulkAddTasks([{title: "A"}, {title: ""}, {title: "A"}]) has returned
\* [task, error, task], both tasks open.
C9_Witness ==
    /\ ret.op = "bulkAddTasks"
    /\ ret.arg = << [title |-> "A"], [title |-> ""], [title |-> "A"] >>
    /\ Len(ret.value) = 3
    /\ DOMAIN ret.value[1] = {"ref"}
    /\ ret.value[2] = [error |-> "False"]
    /\ DOMAIN ret.value[3] = {"ref"}
    /\ {ret.value[1].ref, ret.value[3].ref} \subseteq Range(tasks)

\* The items of the running bulkAddTasks call whose addTask body has started:
\* a coroutine runs no code before it is awaited, and the loop of lines 83-85
\* awaits item k only when the items before it are over.
BulkBegun == IF bulk.ref = 0 THEN {} ELSE 1..bulk.k

\* C10: while the validation of the first item of a bulkAddTasks call of two
\* or more items is pending, every item of the call has been started.
C10_AllItemsStartedFirst ==
    ( /\ bulk.ref # 0
      /\ Len(bulk.items) >= 2
      /\ bulk.k = 1 )
    => BulkBegun = 1..Len(bulk.items)


\* C11: getTasksByPriority(p) returns, at the moment it returns, the open
\* tasks whose priority is p, in the order of tasks.
C11_ResultAtReturn ==
    ret.op = "getTasksByPriority" =>
        ret.value = SelectSeq(tasks, LAMBDA r : heap[r].priority = ret.arg)


\* C12: getTaskStats does not raise; it reports completionRate 0 when tasks
\* and completedTasks are both empty, and 100 when there is a task and every
\* task is in completedTasks.
C12_CompletionRateTotal ==
    ret.op = "getTaskStats" =>
        /\ ~ret.raised
        /\ (tasks = <<>> /\ completedTasks = <<>>)
              => ret.value.completionRate.num = 0
        /\ (tasks = <<>> /\ completedTasks # <<>>)
              => ret.value.completionRate.num = 100 * ret.value.completionRate.den


C14_UpdateNoOpOrOneEvent ==
    [][ ret'.op = "updateTask" =>
          IF ret'.arg.taskId \notin OpenIds
          THEN /\ ~ret'.raised
               /\ notified' = <<>>
               /\ heap' = heap
               /\ tasks' = tasks
               /\ completedTasks' = completedTasks
               /\ pending' = pending
               /\ idCounter' = idCounter
               /\ observers' = observers
          ELSE \E r \in Range(tasks) :
                  /\ heap[r].id = ret'.arg.taskId
                  /\ heap'[r] = Merge(heap[r], ret'.arg.updates)
                  /\ \A q \in (DOMAIN heap) \ {r} : heap'[q] = heap[q]
                  /\ notified' = Delivered(observers, "taskUpdated", r)
                  /\ ~ret'.raised ]_vars

\* updateTask was called with the id of a pending addTask call while another
\* task was open, another completed and an observer registered: nothing was
\* invoked and the open task still has its title.
C14_Witness ==
    /\ ret.op = "updateTask"
    /\ ret.arg.updates = [title |-> "B"]
    /\ ret.arg.taskId \in {heap[r].id : r \in pending}
    /\ ret.arg.taskId \notin OpenIds
    /\ observers # <<>>
    /\ notified = <<>>
    /\ Len(tasks) = 1 /\ heap[tasks[1]].title = "A"
    /\ Len(completedTasks) = 1


\* C15: a task built by an addTask call that passes no priority, or for a
\* bulkAddTasks item that has no priority key, has priority 'medium'.
C15_DefaultPriorityMedium ==
    [][ /\ \A r \in pending' \ pending :
              "priority" \notin DOMAIN ret'.arg => heap'[r].priority = "medium"
        /\ (bulk'.ref # 0 /\ bulk'.ref \notin DOMAIN heap) =>
              ( "priority" \notin DOMAIN bulk'.items[bulk'.k]
                  => heap'[bulk'.ref].priority = "medium" ) ]_vars

\* A due date that was passed (not None) and is no ISO date.
BadDueDate(d) ==
    /\ Get(d, "dueDate") # NoneStr
    /\ Get(d, "dueDate") \notin DOMAIN IsoDay

\* C16: an addTask call with a due-date string that is no ISO date, the
\* empty string included, fails: it builds and stores no task and reaches
\* no validation, so nothing is appended or notified for it; bulkAddTasks
\* reports an error descriptor for every such item.
C16_BadDueDateFails ==
    [][ /\ ret'.op = "addTask.await" => ~BadDueDate(ret'.arg)
        /\ (bulk'.ref # 0 /\ bulk'.ref \notin DOMAIN heap) =>
              ~BadDueDate(bulk'.items[bulk'.k])
        /\ ret'.op = "bulkAddTasks" =>
              \A k \in 1..Len(ret'.arg) :
                  BadDueDate(ret'.arg[k]) => DOMAIN ret'.value[k] = {"error"} ]_vars


\* The ids of the addTask calls that are suspended in validateTask.
PendingIds == {heap[r].id : r \in pending \cup ({bulk.ref} \ {0})}

\* C17: the task of an addTask call that is suspended in validation is in
\* neither list; a completeTask or updateTask call with its id finds no task
\* (returns None, changes and notifies nothing); getTaskStats counts only the
\* tasks of the two lists; and a task is appended to tasks in the very step
\* in which the observers are invoked with taskAdded for it, whatever other
\* calls are suspended.
C17_InvisibleUntilValidated ==
    [][ /\ \A r \in pending \cup ({bulk.ref} \ {0}) : r \notin Stored
        /\ (ret'.op = "completeTask" /\ ret'.arg \in PendingIds) =>
              /\ ret'.value = 0
              /\ tasks' = tasks /\ completedTasks' = completedTasks
              /\ heap' = heap /\ notified' = <<>>
        /\ (ret'.op = "updateTask" /\ ret'.arg.taskId \in PendingIds) =>
              heap' = heap /\ notified' = <<>>
        /\ (ret'.op = "getTaskStats" /\ ~ret'.raised) =>
              ret'.value.total = Cardinality(Stored)
        /\ \A k \in DOMAIN notified' :
              notified'[k].event = "taskAdded" =>
                  /\ notified'[k].data \notin Range(tasks)
                  /\ tasks' = Append(tasks, notified'[k].data)
        /\ Len(tasks') > Len(tasks) =>
              notified' = Delivered(observers, "taskAdded", tasks'[Len(tasks')]) ]_vars


\* C18: the tasks of `tasks` are in strictly ascending id order, in every
\* state reached by addTask, bulkAddTasks and completeTask, whatever the
\* order in which the validations of suspended calls end.
C18_OpenInIdOrder ==
    \A i, j \in 1..Len(tasks) : i < j => heap[tasks[i]].id < heap[tasks[j]].id

\* The ids for which taskAdded was delivered: a task is delivered with the id
\* it was built with.
AddedIds == {issued[r] : r \in added}

\* C19: every event the observer receives carries a task whose addTask call
\* returned it; a taskAdded event carries an id for which no taskAdded was
\* delivered before; a taskUpdated or taskCompleted event carries an id for
\* which taskAdded was delivered before and for which no taskCompleted was
\* delivered before; a call that fails validation delivers nothing.
C19_EventOrderPerId ==
    [][ /\ \A k \in DOMAIN notified' :
              LET e == notified'[k]
                  id == heap'[e.data].id
              IN  /\ e.data \in added'
                  /\ e.event = "taskAdded" => id \notin AddedIds
                  /\ e.event \in {"taskUpdated", "taskCompleted"} =>
                        id \in AddedIds /\ id \notin CompletedIds
        /\ (ret'.op = "addTask" /\ ret'.raised) => notified' = <<>> ]_vars


\* The addTask call that built dict r is over: it returned the task, which
\* is stored, or it raised and its dict is gone.
Finished(r) ==
    /\ r \notin pending
    /\ r \in (added \cap Stored) \/ r \notin DOMAIN heap

====
